---- MODULE Spec2Model ----
(***************************************************************************)
(* The relay-backed query functions of divine-web:                         *)
(*   useVideoSocialMetrics, useVideoUserInteractions (src/unnamed/part_001)*)
(*   useFollowing (src/unnamed/part_000), useFollowers                     *)
(*   (src/src/hooks/useFollowers.ts).                                      *)
(* Each queryFn is an async function: it runs synchronously up to an       *)
(* `await nostr.query(...)`, is resumed when the query settles, and runs   *)
(* synchronously again up to the next await or its return.  One action of  *)
(* the model is one such synchronous stretch.                              *)
(***************************************************************************)
EXTENDS Integers, Sequences, FiniteSets, TLC

(***************************************************************************)
(* Bounds of the model.                                                    *)
(***************************************************************************)
\* greatest number of events the relay stores in one behaviour
MaxStored == 3
\* greatest number of stored events in the behaviours checked for liveness
\* (what ends an await does not depend on what the relay stores)
MaxStoredLive == 2
\* greatest length of a relay response: it has room for every matching
\* stored event and, beyond that, for repeated events and null entries
MaxResponse == 4

(***************************************************************************)
(* JavaScript values.                                                      *)
(***************************************************************************)
\* the value `undefined` of an optional string argument or an absent tag slot
Undefined == "<undefined>"
\* the value `null` of likeEventId / repostEventId
NullId == "<null>"
\* a null entry of a response array: reading a property of it throws
Null == [null |-> TRUE]
IsNull(e) == "null" \in DOMAIN e
\* JavaScript truthiness of an optional string: !!s
Truthy(s) == s # Undefined /\ s # ""

Range(s) == {s[i] : i \in DOMAIN s}

\* tag[i] with JavaScript's zero-based index; out of range reads undefined
TagAt(tag, i) == IF i < Len(tag) THEN tag[i + 1] ELSE Undefined

(***************************************************************************)
(* Reaction contents.  The two emoji are written by name.                  *)
(***************************************************************************)
PLUS == "+"
HEART == "heart-emoji U+2764 U+FE0F"
THUMBS_UP == "thumbs-up-emoji U+1F44D"
MINUS == "-"

(***************************************************************************)
(* The identities, the video and the events a relay may store.             *)
(***************************************************************************)
ALICE == "alice"
BOB == "bob"
CAROL == "carol"
VIDEO == "video1"
VINE == "vine1"

\* `34236:${videoPubkey}:${vineId}` when both are truthy, else null
AddressableRef(videoPubkey, vineId) ==
  IF Truthy(videoPubkey) /\ Truthy(vineId)
    THEN "34236:" \o videoPubkey \o ":" \o vineId
    ELSE NullId

REF == AddressableRef(CAROL, VINE)

Event(id, pubkey, kind, content, created_at, tags) ==
  [id |-> id, pubkey |-> pubkey, kind |-> kind, content |-> content,
   created_at |-> created_at, tags |-> tags]

Interactions ==
  { Event("L1", ALICE, 7, PLUS, 11, << <<"e", VIDEO>> >>),
    Event("L2", ALICE, 7, HEART, 12, << <<"a", REF>> >>),
    Event("L3", ALICE, 7, MINUS, 13, << <<"e", VIDEO>> >>),
    Event("R1", ALICE, 6, "", 14, << <<"e", VIDEO>>, <<"a", REF>> >>),
    Event("L4", BOB, 7, THUMBS_UP, 15, << <<"e", VIDEO>> >>),
    Event("C1", BOB, 1111, "nice", 16, << <<"E", VIDEO>>, <<"A", REF>> >>),
    Event("C2", CAROL, 1, "thanks", 17, << <<"e", VIDEO>> >>),
    Event("Z1", BOB, 9735, "", 18, << <<"e", VIDEO>> >>) }

Deletions ==
  { Event("D1", ALICE, 5, "", 21, << <<"e", "L1">> >>),
    Event("D2", ALICE, 5, "", 22,
          << <<"e", "R1">>, <<"e">>, <<"e", "">>, <<"e", "L2">> >>) }

ContactLists ==
  { Event("K1", ALICE, 3, "", 10, << <<"p", BOB>>, <<"p", "">>, <<"p", CAROL>> >>),
    Event("K2", ALICE, 3, "", 20,
          << <<"p", CAROL>>, <<"p">>, <<"e", VIDEO>>, <<"p", CAROL>> >>),
    Event("K3", ALICE, 3, "", 20, << <<"p", BOB>> >>),
    Event("K4", BOB, 3, "", 5, << <<"p", CAROL>>, <<"p", ALICE>> >>) }

Pool == Interactions \cup Deletions \cup ContactLists

(***************************************************************************)
(* The relay client, nostr.query(filters, {signal}): the events that match *)
(* any of the filters.  Within a filter every given field must match.      *)
(***************************************************************************)
HasTag(e, name, values) ==
  \E i \in DOMAIN e.tags :
    /\ Len(e.tags[i]) >= 2
    /\ e.tags[i][1] = name
    /\ e.tags[i][2] \in values

Matches(e, f) ==
  /\ e.kind \in f.kinds
  /\ ("authors" \in DOMAIN f => e.pubkey \in Range(f.authors))
  /\ ("tagName" \in DOMAIN f => HasTag(e, f.tagName, Range(f.tagValues)))

Matching(store, filters) ==
  {e \in store : \E i \in DOMAIN filters : Matches(e, filters[i])}

\* A response lists every matching stored event at least once, in any
\* order; an event may be listed again (it matched two filters, or two
\* relays of the pool hold it) and an entry may be malformed (null).
Responses(store, filters) ==
  LET m == Matching(store, filters)
      n == Cardinality(m)
  IN {s \in UNION {[1..k -> m \cup {Null}] : k \in n..MaxResponse} :
        m \subseteq Range(s)}

(***************************************************************************)
(* The filters each queryFn builds.                                        *)
(***************************************************************************)
MetricsFilter(tagName, value) ==
  [kinds |-> {1, 6, 7, 1111, 9735}, tagName |-> tagName,
   tagValues |-> <<value>>, limit |-> 500]

\* useVideoSocialMetrics: two filters by event id, two more by addressable
\* reference when it can be built
MetricsFilters(videoId, videoPubkey, vineId) ==
  LET addressableRef == AddressableRef(videoPubkey, vineId)
      byId == << MetricsFilter("e", videoId), MetricsFilter("E", videoId) >>
  IN IF addressableRef # NullId
       THEN byId \o << MetricsFilter("a", addressableRef),
                       MetricsFilter("A", addressableRef) >>
       ELSE byId

InteractionFilter(userPubkey, tagName, value) ==
  [kinds |-> {6, 7}, authors |-> <<userPubkey>>, tagName |-> tagName,
   tagValues |-> <<value>>, limit |-> 10]

\* useVideoUserInteractions, first query
InteractionFilters(videoId, userPubkey, videoPubkey, vineId) ==
  LET addressableRef == AddressableRef(videoPubkey, vineId)
      byId == << InteractionFilter(userPubkey, "e", videoId) >>
  IN IF addressableRef # NullId
       THEN Append(byId, InteractionFilter(userPubkey, "a", addressableRef))
       ELSE byId

\* faulty variant: the delete query does not name the viewer as author
DeleteFilters_AnyAuthor(userPubkey, events) ==
  << [kinds |-> {5}, tagName |-> "e",
      tagValues |-> [i \in DOMAIN events |-> events[i].id], limit |-> 20] >>

\* useVideoUserInteractions, second query: '#e': events.map(e => e.id)
DeleteFilters(userPubkey, events) ==
  << [kinds |-> {5}, authors |-> <<userPubkey>>, tagName |-> "e",
      tagValues |-> [i \in DOMAIN events |-> events[i].id], limit |-> 20] >>

FollowingFilters(pubkey) ==
  << [kinds |-> {3}, authors |-> <<pubkey>>, limit |-> 1] >>

FollowersFilters(pubkey) ==
  << [kinds |-> {3}, tagName |-> "p", tagValues |-> <<pubkey>>,
      limit |-> 10000] >>

(***************************************************************************)
(* Processing of a response.                                               *)
(***************************************************************************)
\* Every loop over a response reads a property of each entry (event.id,
\* event.pubkey, deleteEvent.tags, b.created_at, contactList.id): a null
\* entry makes it throw a TypeError inside the try block.
Throws(response) == \E i \in DOMAIN response : IsNull(response[i])

\* Map.prototype.set: a present key keeps its position and takes the new
\* value, an absent key is appended
\* faulty variant: a key that is set again moves to the end of the Map
MapSet_MoveToEnd(m, key, value) ==
  Append(SelectSeq(m, LAMBDA entry : entry.key # key),
         [key |-> key, value |-> value])

MapSet(m, key, value) ==
  IF \E i \in DOMAIN m : m[i].key = key
    THEN [i \in DOMAIN m |->
            IF m[i].key = key THEN [key |-> key, value |-> value] ELSE m[i]]
    ELSE Append(m, [key |-> key, value |-> value])

\* faulty variant: the response is used as it came, without the Map
UniqueEvents_NoDedup(allEvents) == allEvents

\* uniqueEvents filled by the loop over allEvents, then
\* Array.from(uniqueEvents.values())
UniqueEvents(allEvents) ==
  LET uniqueEvents[i \in 0..Len(allEvents)] ==
        IF i = 0 THEN <<>>
        ELSE MapSet(uniqueEvents[i - 1], allEvents[i].id, allEvents[i])
      m == uniqueEvents[Len(allEvents)]
  IN [i \in DOMAIN m |-> m[i].value]

ZeroMetrics ==
  [likeCount |-> 0, repostCount |-> 0, viewCount |-> 0, commentCount |-> 0]

\* faulty variant: every reaction counts as a like
IsLikeContent_AnyReaction(content) == TRUE

\* the test of a positive reaction in useVideoSocialMetrics
IsLikeContent(content) ==
  content = PLUS \/ content = HEART \/ content = THUMBS_UP

\* faulty variant: the case for kind 1111 is missing, so NIP-22 comments
\* fall through uncounted
CountEvent_NoNip22Comments(c, event) ==
  CASE event.kind = 7 ->
         IF IsLikeContent(event.content)
           THEN [c EXCEPT !.likeCount = @ + 1]
           ELSE c
    [] event.kind = 6 -> [c EXCEPT !.repostCount = @ + 1]
    [] event.kind = 1 -> [c EXCEPT !.commentCount = @ + 1]
    [] event.kind = 9735 -> [c EXCEPT !.viewCount = @ + 1]
    [] OTHER -> c

\* the body of the switch over event.kind
CountEvent(c, event) ==
  CASE event.kind = 7 ->
         IF IsLikeContent(event.content)
           THEN [c EXCEPT !.likeCount = @ + 1]
           ELSE c
    [] event.kind = 6 -> [c EXCEPT !.repostCount = @ + 1]
    [] event.kind \in {1, 1111} -> [c EXCEPT !.commentCount = @ + 1]
    [] event.kind = 9735 -> [c EXCEPT !.viewCount = @ + 1]
    [] OTHER -> c

\* the loop over the deduplicated events
CountEvents(events) ==
  LET c[i \in 0..Len(events)] ==
        IF i = 0 THEN ZeroMetrics ELSE CountEvent(c[i - 1], events[i])
  IN c[Len(events)]

\* useVideoSocialMetrics after its await
Metrics(allEvents) == CountEvents(UniqueEvents(allEvents))

EmptyInteractions ==
  [hasLiked |-> FALSE, hasReposted |-> FALSE,
   likeEventId |-> NullId, repostEventId |-> NullId]

\* faulty variant: only the first tag of each delete event is read
DeletedEventIds_FirstTagOnly(deleteEvents) ==
  {TagAt(deleteEvent.tags[1], 1) :
     deleteEvent \in {d \in Range(deleteEvents) :
                        /\ Len(d.tags) >= 1
                        /\ TagAt(d.tags[1], 0) = "e"
                        /\ Truthy(TagAt(d.tags[1], 1))}}

\* deletedEventIds: the tag[1] of every delete-event tag with tag[0] = 'e'
\* and a truthy tag[1]
DeletedEventIds(deleteEvents) ==
  UNION { {TagAt(tag, 1) :
             tag \in {t \in Range(deleteEvent.tags) :
                        TagAt(t, 0) = "e" /\ Truthy(TagAt(t, 1))}} :
          deleteEvent \in Range(deleteEvents) }

\* the test of a positive reaction in useVideoUserInteractions
IsUserLikeContent(content) ==
  content = PLUS \/ content = HEART \/ content = THUMBS_UP

\* faulty variant: hasLiked / hasReposted are assigned from every event that is not
\* deleted, so the last one decides
ProcessInteraction_LastDecides(r, event, deletedEventIds) ==
  IF event.id \in deletedEventIds THEN r
  ELSE LET isLike == event.kind = 7 /\ IsUserLikeContent(event.content)
       IN [hasLiked |-> isLike,
           hasReposted |-> event.kind = 6,
           likeEventId |-> IF isLike THEN event.id ELSE r.likeEventId,
           repostEventId |-> IF event.kind = 6 THEN event.id
                             ELSE r.repostEventId]

\* faulty variant: likeEventId is assigned from every reaction, whatever its
\* content
ProcessInteraction_LikeIdOfAnyReaction(r, event, deletedEventIds) ==
  IF event.id \in deletedEventIds THEN r
  ELSE LET liked == IF event.kind = 7
                      THEN [r EXCEPT !.hasLiked =
                                       r.hasLiked
                                         \/ IsUserLikeContent(event.content),
                                     !.likeEventId = event.id]
                      ELSE r
       IN IF event.kind = 6
            THEN [liked EXCEPT !.hasReposted = TRUE, !.repostEventId = event.id]
            ELSE liked

\* one pass of the loop over events, ignoring deleted ones
ProcessInteraction(r, event, deletedEventIds) ==
  IF event.id \in deletedEventIds THEN r
  ELSE LET liked == IF event.kind = 7 /\ IsUserLikeContent(event.content)
                      THEN [r EXCEPT !.hasLiked = TRUE, !.likeEventId = event.id]
                      ELSE r
       IN IF event.kind = 6
            THEN [liked EXCEPT !.hasReposted = TRUE, !.repostEventId = event.id]
            ELSE liked

\* useVideoUserInteractions after its second await
Interactions2(events, deleteEvents) ==
  LET deletedEventIds == DeletedEventIds(deleteEvents)
      r[i \in 0..Len(events)] ==
        IF i = 0 THEN EmptyInteractions
        ELSE ProcessInteraction(r[i - 1], events[i], deletedEventIds)
  IN r[Len(events)]

\* Array.prototype.sort((a, b) => b.created_at - a.created_at): stable,
\* descending by created_at
RECURSIVE SortByCreatedAtDesc(_)
SortByCreatedAtDesc(s) ==
  IF Len(s) <= 1 THEN s
  ELSE LET rest == SortByCreatedAtDesc(Tail(s))
           \* entries of the sorted tail that stay before Head(s)
           k == Cardinality({i \in DOMAIN rest :
                               rest[i].created_at > Head(s).created_at})
       IN SubSeq(rest, 1, k) \o <<Head(s)>> \o SubSeq(rest, k + 1, Len(rest))

IsPTag(tag) == TagAt(tag, 0) = "p"
HasPubkeyValue(tag) == Truthy(TagAt(tag, 1))

\* faulty variant: the first returned event is taken as the contact list, unsorted
Following_FirstReturned(contactListEvents) ==
  IF Len(contactListEvents) = 0 THEN <<>>
  ELSE LET contactList == contactListEvents[1]
           pTags == SelectSeq(contactList.tags, IsPTag)
           valued == SelectSeq(pTags, HasPubkeyValue)
       IN [i \in DOMAIN valued |-> TagAt(valued[i], 1)]

\* useFollowing after its await
Following(contactListEvents) ==
  IF Len(contactListEvents) = 0 THEN <<>>
  ELSE LET contactList == SortByCreatedAtDesc(contactListEvents)[1]
           pTags == SelectSeq(contactList.tags, IsPTag)
           valued == SelectSeq(pTags, HasPubkeyValue)
       IN [i \in DOMAIN valued |-> TagAt(valued[i], 1)]

\* faulty variant: an array push instead of a set add
SetAdd_Push(s, x) == Append(s, x)

\* Set.prototype.add on a set kept in insertion order
SetAdd(s, x) == IF x \in Range(s) THEN s ELSE Append(s, x)

\* useFollowers after its await
Followers(contactListEvents) ==
  IF Len(contactListEvents) = 0 THEN <<>>
  ELSE LET followerPubkeys[i \in 0..Len(contactListEvents)] ==
             IF i = 0 THEN <<>>
             ELSE SetAdd(followerPubkeys[i - 1], contactListEvents[i].pubkey)
       IN followerPubkeys[Len(contactListEvents)]

(***************************************************************************)
(* The four query functions as one state machine.                          *)
(***************************************************************************)
VARIABLES
  relay,         \* the events the relay stores (unchanged in a behaviour)
  op,            \* the query function of the current invocation
  args,          \* its arguments
  pc,            \* "idle", "await1", "await2" (the delete query) or "done"
  timedOut,      \* AbortSignal.timeout(ms) has fired
  cancelled,     \* context.signal has fired
  events,        \* useVideoUserInteractions: the deduplicated first response
  queries,       \* the filter lists of the nostr.query calls made so far
  allEventsLen,  \* useVideoSocialMetrics: allEvents.length
  firstResponse, \* useVideoUserInteractions: allEvents, as the relay sent it
  result,        \* the value the queryFn resolved with
  exit,          \* the return statement taken: "shortcut", "return", "catch"
  failure,       \* what was caught: "rejected", "aborted", "raised"
  prev           \* exit and result of the run before a refetch

vars == <<relay, op, args, pc, timedOut, cancelled, events, queries,
          allEventsLen, firstResponse, result, exit, failure, prev>>

Ops == {"metrics", "interactions", "following", "followers"}

NoArgs ==
  [videoId |-> Undefined, userPubkey |-> Undefined, videoPubkey |-> Undefined,
   vineId |-> Undefined, pubkey |-> Undefined]

\* videoPubkey and vineId of a video: neither known, the author alone, both
VideoRefs == {<<Undefined, Undefined>>, <<CAROL, Undefined>>, <<CAROL, VINE>>}

\* the arguments the callers pass
ArgsOf(o) ==
  CASE o = "metrics" ->
         {[NoArgs EXCEPT !.videoId = VIDEO, !.videoPubkey = v[1], !.vineId = v[2]] :
            v \in VideoRefs}
    [] o = "interactions" ->
         {[NoArgs EXCEPT !.videoId = VIDEO, !.userPubkey = up,
                         !.videoPubkey = v[1], !.vineId = v[2]] :
            up \in {Undefined, "", ALICE}, v \in VideoRefs}
    [] OTHER ->
         {[NoArgs EXCEPT !.pubkey = pk] : pk \in {Undefined, "", ALICE, CAROL}}

NoResult == [pending |-> TRUE]
NoPrev == [exit |-> "none"]

\* the value each catch block (and each early return) yields
DefaultResult(o) ==
  CASE o = "metrics" -> ZeroMetrics
    [] o = "interactions" -> EmptyInteractions
    [] OTHER -> <<>>

\* faulty variant: only `undefined` short-circuits, the empty string goes on
ShortCircuits_UndefinedOnly(o, a) ==
  CASE o = "metrics" -> FALSE
    [] o = "interactions" -> a.userPubkey = Undefined
    [] OTHER -> a.pubkey = Undefined

\* if (!userPubkey) return ... / if (!pubkey) return []
ShortCircuits(o, a) ==
  CASE o = "metrics" -> FALSE
    [] o = "interactions" -> ~Truthy(a.userPubkey)
    [] OTHER -> ~Truthy(a.pubkey)

\* the filters of the first nostr.query call
FirstFilters(o, a) ==
  CASE o = "metrics" -> MetricsFilters(a.videoId, a.videoPubkey, a.vineId)
    [] o = "interactions" ->
         InteractionFilters(a.videoId, a.userPubkey, a.videoPubkey, a.vineId)
    [] o = "following" -> FollowingFilters(a.pubkey)
    [] OTHER -> FollowersFilters(a.pubkey)

\* faulty variant: the lookup's catch block reports what the first query found
OnError_KeepFound(o, evs) ==
  IF o = "interactions" THEN Interactions2(evs, <<>>) ELSE DefaultResult(o)

\* the value returned from the catch block; evs is the local `events`
OnError(o, evs) == DefaultResult(o)

\* signal = AbortSignal.any([context.signal, AbortSignal.timeout(ms)])
SignalAborted == timedOut \/ cancelled

\* faulty variant: the delete query is called without { signal }
SignalPassed_FirstQueryOnly(p) == p = "await1"

\* whether the nostr.query awaited at p was given { signal }
SignalPassed(p) == p \in {"await1", "await2"}

Awaiting == {"await1", "await2"}

\* the awaited query can still settle by itself
Pending == pc \in Awaiting /\ ~(SignalAborted /\ SignalPassed(pc))

Init ==
  /\ relay \in {s \in SUBSET Pool : Cardinality(s) <= MaxStored}
  /\ op = "none"
  /\ args = NoArgs
  /\ pc = "idle"
  /\ timedOut = FALSE
  /\ cancelled = FALSE
  /\ events = <<>>
  /\ queries = <<>>
  /\ allEventsLen = 0
  /\ firstResponse = <<>>
  /\ result = NoResult
  /\ exit = "none"
  /\ failure = "none"
  /\ prev = NoPrev

\* the queryFn from its call to its first await or early return
Begin(o, a, p) ==
  /\ op' = o
  /\ args' = a
  /\ prev' = p
  /\ timedOut' = FALSE
  /\ cancelled' = FALSE
  /\ events' = <<>>
  /\ allEventsLen' = 0
  /\ firstResponse' = <<>>
  /\ failure' = "none"
  /\ IF ShortCircuits(o, a)
       THEN /\ pc' = "done"
            /\ queries' = <<>>
            /\ result' = DefaultResult(o)
            /\ exit' = "shortcut"
       ELSE /\ pc' = "await1"
            /\ queries' = <<FirstFilters(o, a)>>
            /\ result' = NoResult
            /\ exit' = "none"
  /\ UNCHANGED relay

\* a component mounts: the query cache calls the queryFn of its key.  The
\* invocations of different keys share no state, so a behaviour follows one.
Invoke ==
  /\ pc = "idle"
  /\ \E o \in Ops : \E a \in ArgsOf(o) : Begin(o, a, NoPrev)

\* the query cache calls the queryFn again with the same key (stale data,
\* refetchOnWindowFocus); prev keeps what the try block returned last time
Refetch ==
  /\ pc = "done"
  /\ Begin(op, args,
           IF exit = "return"
             THEN [exit |-> exit, result |-> result]
             ELSE NoPrev)

Return(r) ==
  /\ pc' = "done"
  /\ result' = r
  /\ exit' = "return"
  /\ UNCHANGED <<failure, firstResponse>>

Catch(why) ==
  /\ pc' = "done"
  /\ UNCHANGED firstResponse
  /\ result' = OnError(op, events)
  /\ exit' = "catch"
  /\ failure' = why

\* useVideoSocialMetrics resumed with the response
MetricsResolves ==
  /\ op = "metrics" /\ pc = "await1" /\ Pending
  /\ \E allEvents \in Responses(relay, queries[1]) :
       /\ allEventsLen' = Len(allEvents)
       /\ IF Throws(allEvents)
            THEN Catch("raised")
            ELSE Return(Metrics(allEvents))
  /\ UNCHANGED <<relay, op, args, timedOut, cancelled, events, queries, prev>>

\* useVideoUserInteractions resumed with the first response: deduplicates
\* and issues the delete query
InteractionsResolve ==
  /\ op = "interactions" /\ pc = "await1" /\ Pending
  /\ \E allEvents \in Responses(relay, queries[1]) :
       /\ IF Throws(allEvents)
            THEN Catch("raised") /\ UNCHANGED <<events, queries>>
            ELSE /\ firstResponse' = allEvents
                 /\ events' = UniqueEvents(allEvents)
                 /\ queries' = Append(queries,
                                      DeleteFilters(args.userPubkey, events'))
                 /\ pc' = "await2"
                 /\ UNCHANGED <<result, exit, failure>>
  /\ UNCHANGED <<relay, op, args, timedOut, cancelled, allEventsLen, prev>>

\* useVideoUserInteractions resumed with the delete events
DeletesResolve ==
  /\ op = "interactions" /\ pc = "await2" /\ Pending
  /\ \E deleteEvents \in Responses(relay, queries[2]) :
       IF Throws(deleteEvents)
         THEN Catch("raised")
         ELSE Return(Interactions2(events, deleteEvents))
  /\ UNCHANGED <<relay, op, args, timedOut, cancelled, events, queries,
                 allEventsLen, prev>>

\* useFollowing resumed with the response
FollowingResolves ==
  /\ op = "following" /\ pc = "await1" /\ Pending
  /\ \E contactListEvents \in Responses(relay, queries[1]) :
       IF Throws(contactListEvents)
         THEN Catch("raised")
         ELSE Return(Following(contactListEvents))
  /\ UNCHANGED <<relay, op, args, timedOut, cancelled, events, queries,
                 allEventsLen, prev>>

\* useFollowers resumed with the response
FollowersResolve ==
  /\ op = "followers" /\ pc = "await1" /\ Pending
  /\ \E contactListEvents \in Responses(relay, queries[1]) :
       IF Throws(contactListEvents)
         THEN Catch("raised")
         ELSE Return(Followers(contactListEvents))
  /\ UNCHANGED <<relay, op, args, timedOut, cancelled, events, queries,
                 allEventsLen, prev>>

\* the awaited query rejects by itself (network error)
QueryRejects ==
  /\ Pending
  /\ Catch("rejected")
  /\ UNCHANGED <<relay, op, args, timedOut, cancelled, events, queries,
                 allEventsLen, prev>>

\* AbortSignal.timeout(ms) fires while a query is awaited
TimeoutFires ==
  /\ pc \in Awaiting /\ ~SignalAborted
  /\ timedOut' = TRUE
  /\ UNCHANGED <<relay, op, args, pc, cancelled, events, queries,
                 allEventsLen, firstResponse, result, exit, failure,
                 prev>>

\* context.signal fires while a query is awaited (the query was superseded
\* or its observer unmounted)
ContextAborts ==
  /\ pc \in Awaiting /\ ~SignalAborted
  /\ cancelled' = TRUE
  /\ UNCHANGED <<relay, op, args, pc, timedOut, events, queries,
                 allEventsLen, firstResponse, result, exit, failure,
                 prev>>

\* the relay client rejects the awaited query because its signal aborted
QueryAborted ==
  /\ pc \in Awaiting /\ SignalAborted /\ SignalPassed(pc)
  /\ Catch("aborted")
  /\ UNCHANGED <<relay, op, args, timedOut, cancelled, events, queries,
                 allEventsLen, prev>>

Next ==
  \/ Invoke
  \/ Refetch
  \/ MetricsResolves
  \/ InteractionsResolve
  \/ DeletesResolve
  \/ FollowingResolves
  \/ FollowersResolve
  \/ QueryRejects
  \/ TimeoutFires
  \/ ContextAborts
  \/ QueryAborted

Spec == Init /\ [][Next]_vars

\* A timer that was started fires, and the relay client rejects a query
\* whose signal aborted; the relay itself owes no answer.
LiveInit == Init /\ Cardinality(relay) <= MaxStoredLive

LiveSpec ==
  LiveInit /\ [][Next]_vars /\ WF_vars(TimeoutFires) /\ WF_vars(QueryAborted)

(***************************************************************************)
(* Reference notions the properties are stated with.                       *)
(***************************************************************************)
\* the stored events the first query of the invocation asks for; a response
\* holds exactly these as its distinct events
Returned == Matching(relay, queries[1])

\* the positive tokens of a reaction
AllowList == {PLUS, HEART, THUMBS_UP}

IsLike(e) == e.kind = 7 /\ e.content \in AllowList

\* the events that belong to one of the four counters
Counted(e) == IsLike(e) \/ e.kind \in {6, 1, 1111, 9735}

\* the delete events the second query of the lookup asks for
ReturnedDeletes == Matching(relay, queries[2])

\* id is referenced by an 'e' tag of a returned delete event
InDeletionSet(id) ==
  \E d \in ReturnedDeletes : \E i \in DOMAIN d.tags : d.tags[i] = <<"e", id>>

AllZero(r) ==
  r = [likeCount |-> 0, repostCount |-> 0, viewCount |-> 0, commentCount |-> 0]

NothingFound(r) ==
  r = [hasLiked |-> FALSE, hasReposted |-> FALSE,
       likeEventId |-> "<null>", repostEventId |-> "<null>"]

\* r is the degraded value of query function o
Degraded(o, r) ==
  CASE o = "metrics" -> AllZero(r)
    [] o = "interactions" -> NothingFound(r)
    [] OTHER -> r = <<>>

Returns(o) == op = o /\ pc = "done" /\ exit = "return"

(***************************************************************************)
(* C1.  useVideoSocialMetrics counts over the distinct identifiers of the  *)
(* response: an event listed more than once adds one to its counter, so    *)
(* the four counts add up to the number of distinct counted events.        *)
(***************************************************************************)
C1_CountsOverDistinctIds ==
  Returns("metrics") =>
    /\ result.likeCount + result.repostCount
         + result.commentCount + result.viewCount
       = Cardinality({e.id : e \in {x \in Returned : Counted(x)}})
    /\ result.repostCount = Cardinality({e.id : e \in {x \in Returned : x.kind = 6}})

\* a response that repeated an event, every returned event being counted
C1_Witness ==
  /\ Returns("metrics")
  /\ allEventsLen > Cardinality(Returned)
  /\ Cardinality(Returned) >= 2
  /\ \A e \in Returned : Counted(e)

(***************************************************************************)
(* C2.  useVideoUserInteractions never reports an event of the deletion    *)
(* set: neither id is in the set, and hasLiked / hasReposted are set only  *)
(* by an event outside it.  In particular, when every positive reaction    *)
(* found is referenced by a returned delete event, hasLiked is false.      *)
(***************************************************************************)
C2_DeletedNeverReported ==
  Returns("interactions") =>
    /\ ~InDeletionSet(result.likeEventId)
    /\ ~InDeletionSet(result.repostEventId)
    /\ result.hasLiked =>
         \E e \in Range(events) : IsLike(e) /\ ~InDeletionSet(e.id)
    /\ result.hasReposted =>
         \E e \in Range(events) : e.kind = 6 /\ ~InDeletionSet(e.id)

\* a like of the viewer was found and a returned delete event references it
C2_Witness ==
  /\ Returns("interactions")
  /\ \E e \in Range(events) : IsLike(e) /\ InDeletionSet(e.id)
  /\ ~result.hasLiked

(***************************************************************************)
(* C3.  A kind-7 event counts as a like exactly when its content is one of *)
(* the three positive tokens: likeCount is the number of such events, and  *)
(* hasLiked holds exactly when such an event outside the deletion set was  *)
(* found, likeEventId being the id of one.                                 *)
(***************************************************************************)
C3_ReactionClassification ==
  /\ Returns("metrics") =>
       result.likeCount = Cardinality({e \in Returned : IsLike(e)})
  /\ Returns("interactions") =>
       /\ result.hasLiked <=>
            \E e \in Range(events) : IsLike(e) /\ ~InDeletionSet(e.id)
       /\ result.likeEventId # NullId =>
            \E e \in Range(events) : e.id = result.likeEventId /\ IsLike(e)

\* the viewer's only reaction left has a content outside the allow-list
C3_Witness ==
  /\ Returns("interactions")
  /\ \E e \in Range(events) :
       e.kind = 7 /\ e.content \notin AllowList /\ ~InDeletionSet(e.id)
  /\ ~result.hasLiked

(***************************************************************************)
(* C4.  Whatever fails (a query rejects, is aborted, or the processing of  *)
(* a response raises), the query function resolves with its degraded       *)
(* value; a lookup whose delete query fails reports nothing found.         *)
(***************************************************************************)
C4_FailureDegrades ==
  /\ failure # "none" => pc = "done" /\ exit = "catch" /\ Degraded(op, result)
  /\ exit = "catch" => failure # "none"

\* the lookup found a like, then its delete query failed
C4_Witness ==
  /\ op = "interactions" /\ pc = "done"
  /\ failure \in {"rejected", "raised"}
  /\ Len(queries) = 2
  /\ \E e \in Range(events) : IsLike(e)

(***************************************************************************)
(* C5.  A query function that awaits a query resolves: if the relay never  *)
(* answers, the timeout (or the caller's signal) aborts the query and the  *)
(* function resolves with its degraded value.  The lookup's one signal     *)
(* covers its delete query too.                                            *)
(***************************************************************************)
C5_AwaitEnds ==
  (pc \in Awaiting) ~> (pc = "done" /\ (SignalAborted => Degraded(op, result)))

\* the timeout fired while the lookup awaited its delete query
C5_Witness ==
  /\ op = "interactions" /\ pc = "done"
  /\ timedOut /\ failure = "aborted"
  /\ Len(queries) = 2

RECURSIVE PValues(_)
PValues(tags) ==
  IF tags = <<>> THEN <<>>
  ELSE LET t == Head(tags)
       IN (IF Len(t) >= 2 /\ t[1] = "p" /\ t[2] # "" THEN <<t[2]>> ELSE <<>>)
            \o PValues(Tail(tags))

Latest(S) == {e \in S : \A f \in S : f.created_at <= e.created_at}

(***************************************************************************)
(* C6.  useFollowing returns the values of the valued 'p' tags of a        *)
(* returned contact list with the greatest created_at, in tag order and    *)
(* without deduplication; with no contact list returned it returns [].     *)
(***************************************************************************)
C6_FollowingFromLatest ==
  Returns("following") =>
    IF Returned = {}
      THEN result = <<>>
      ELSE \E e \in Latest(Returned) : result = PValues(e.tags)

\* an older and a newer contact list were returned; the newer one carries a
\* 'p' tag without value, another tag kind and a repeated pubkey
C6_Witness ==
  /\ Returns("following")
  /\ \E e, f \in Returned :
       /\ e.created_at < f.created_at
       /\ PValues(e.tags) # PValues(f.tags)
       /\ Len(PValues(f.tags)) < Len(f.tags)
  /\ Cardinality(Latest(Returned)) = 1
  /\ Len(result) = 2 /\ result[1] = result[2]

(***************************************************************************)
(* C7.  useFollowers returns each distinct author of the returned contact  *)
(* lists exactly once and nothing else.                                    *)
(***************************************************************************)
C7_FollowersDistinctAuthors ==
  Returns("followers") =>
    /\ Range(result) = {e.pubkey : e \in Returned}
    /\ Len(result) = Cardinality({e.pubkey : e \in Returned})

\* two lists of one author and one list of another were returned
C7_Witness ==
  /\ Returns("followers")
  /\ Cardinality(Returned) = 3
  /\ Len(result) = 2

NoSubject ==
  \/ op = "interactions" /\ args.userPubkey \in {Undefined, ""}
  \/ op \in {"following", "followers"} /\ args.pubkey \in {Undefined, ""}

(***************************************************************************)
(* C8.  Without a viewer (userPubkey undefined or empty) the lookup        *)
(* returns the empty record, and without a subject useFollowing and        *)
(* useFollowers return [], and no query is issued.                         *)
(***************************************************************************)
C8_ShortCircuit ==
  NoSubject => pc = "done" /\ queries = <<>> /\ Degraded(op, result)

\* the lookup was called with an empty viewer while the relay stores a like
C8_Witness ==
  /\ op = "interactions" /\ args.userPubkey = "" /\ pc = "done"
  /\ \E e \in relay : IsLike(e)

\* two runs of a query function with the same arguments against the same
\* stored events, both returning from the try block
BothReturn == pc = "done" /\ exit = "return" /\ prev.exit = "return"

\* the events of the first response that can set likeEventId / repostEventId
LikeCandidates == {e \in Returned : IsLike(e) /\ ~InDeletionSet(e.id)}
RepostCandidates == {e \in Returned : e.kind = 6 /\ ~InDeletionSet(e.id)}

DeletedByAuthor(e) ==
  \E d \in relay :
    /\ d.kind = 5
    /\ d.pubkey = e.pubkey
    /\ \E i \in DOMAIN d.tags : d.tags[i] = <<"e", e.id>>

(***************************************************************************)
(* C10.  A reaction or repost that a stored delete event of its own author *)
(* references does not count in likeCount / repostCount.                   *)
(***************************************************************************)
C10_DeletedNotCounted ==
  Returns("metrics") =>
    /\ result.likeCount
         = Cardinality({e \in Returned : IsLike(e) /\ ~DeletedByAuthor(e)})
    /\ result.repostCount
         = Cardinality({e \in Returned : e.kind = 6 /\ ~DeletedByAuthor(e)})


\* the number of distinct returned events of the given kinds
OfKinds(kinds) == Cardinality({e.id : e \in {x \in Returned : x.kind \in kinds}})

(***************************************************************************)
(* C11.  Over the distinct returned events, likeCount is the number of     *)
(* kind-7 events with an allow-listed content, repostCount the number of   *)
(* kind-6 events whatever their content, commentCount the number of kind-1 *)
(* and kind-1111 events and viewCount the number of kind-9735 events; an   *)
(* event adds to at most one counter, so the counts add up to no more than *)
(* the number of distinct identifiers, and to zero when nothing matches.   *)
(***************************************************************************)
C11_CountReference ==
  Returns("metrics") =>
    /\ result.likeCount = Cardinality({e.id : e \in {x \in Returned : IsLike(x)}})
    /\ result.repostCount = OfKinds({6})
    /\ result.commentCount = OfKinds({1}) + OfKinds({1111})
    /\ result.viewCount = OfKinds({9735})
    /\ result.likeCount + result.repostCount + result.commentCount
         + result.viewCount <= Cardinality({e.id : e \in Returned})
    /\ Returned = {} => AllZero(result)

\* a comment of each kind and a zap receipt were returned
C11_Witness ==
  /\ Returns("metrics")
  /\ OfKinds({1}) = 1 /\ OfKinds({1111}) = 1 /\ OfKinds({9735}) = 1
  /\ result.commentCount = 2 /\ result.viewCount = 1


\* f is the filter of a delete query of viewer u for the events evs
IsDeleteFilterFor(f, u, evs) ==
  /\ DOMAIN f = {"kinds", "authors", "tagName", "tagValues", "limit"}
  /\ f.kinds = {5}
  /\ f.authors = <<u>>
  /\ f.tagName = "e"
  /\ Len(f.tagValues) = Len(evs)
  /\ \A i \in DOMAIN evs : f.tagValues[i] = evs[i].id

\* the entries of s are pairwise different
NoRepeats(s) == \A i, j \in DOMAIN s : s[i] = s[j] => i = j

(***************************************************************************)
(* C12.  The lookup issues its delete query only once the interaction      *)
(* query has settled without failure: while the first query is awaited     *)
(* there is one query, and the second, when issued, asks for the kind-5    *)
(* events of the viewer whose 'e' tags name exactly the deduplicated       *)
(* identifiers of the first response.  The aggregator issues one query,    *)
(* with 2 filters, or 4 when both author and slug are given; useFollowing  *)
(* and useFollowers issue at most one.                                     *)
(***************************************************************************)
C12_TwoStageOrdering ==
  /\ Len(queries) <= 2
  /\ pc = "await1" => Len(queries) = 1
  /\ Len(queries) = 2 =>
       /\ op = "interactions" /\ pc \in {"await2", "done"}
       /\ Len(queries[2]) = 1
       /\ IsDeleteFilterFor(queries[2][1], args.userPubkey, events)
       /\ NoRepeats(queries[2][1].tagValues)
       /\ Range(queries[2][1].tagValues) = {e.id : e \in Returned}
  /\ pc = "await2" => Len(queries) = 2 /\ failure = "none" /\ exit = "none"
  /\ op = "metrics" /\ pc # "idle" =>
       /\ Len(queries) = 1
       /\ Len(queries[1]) =
            IF args.videoPubkey = CAROL /\ args.vineId = VINE THEN 4 ELSE 2

\* the delete query is awaited for two events that the first query found
\* with its two filters
C12_Witness ==
  /\ op = "interactions" /\ pc = "await2"
  /\ Len(queries[1]) = 2
  /\ Len(events) = 2


\* the position at which an identifier first occurs in the first response
FirstIndex(id) ==
  CHOOSE i \in DOMAIN firstResponse :
    /\ firstResponse[i].id = id
    /\ \A j \in 1..(i - 1) : firstResponse[j].id # id

\* the candidate whose identifier occurs first latest in the first
\* response, null without candidates
LastMatch(S) ==
  IF S = {} THEN NullId
  ELSE (CHOOSE e \in S :
          \A x \in S : FirstIndex(x.id) <= FirstIndex(e.id)).id

(***************************************************************************)
(* C13.  Last match wins in the fold of the lookup: of the returned        *)
(* positive reactions that are not in the deletion set, likeEventId is     *)
(* the identifier of the one whose identifier occurs first latest in the   *)
(* relay response (the order of first occurrence is the iteration order),  *)
(* and repostEventId likewise of the returned reposts; it is null when     *)
(* there is none.                                                          *)
(***************************************************************************)
C13_LastMatchWins ==
  Returns("interactions") =>
    /\ result.likeEventId = LastMatch(LikeCandidates)
    /\ result.repostEventId = LastMatch(RepostCandidates)

\* two positive reactions are returned, the response repeats the first of
\* them at its end, and the other one wins
C13_Witness ==
  /\ Returns("interactions")
  /\ Cardinality(LikeCandidates) = 2
  /\ Len(firstResponse) = 3
  /\ firstResponse[1] = firstResponse[3]
  /\ firstResponse[1] \in LikeCandidates
  /\ result.likeEventId = firstResponse[2].id


(***************************************************************************)
(* C14.  Every result of useVideoUserInteractions, from the try block,     *)
(* from the short-circuit or from the catch block, has hasLiked true       *)
(* exactly when likeEventId is not null and hasReposted true exactly when  *)
(* repostEventId is not null; a likeEventId that is not null is the        *)
(* identifier of a returned kind-7 event with allow-listed content, a      *)
(* repostEventId that is not null the identifier of a returned kind-6      *)
(* event.                                                                  *)
(***************************************************************************)
C14_RecordConsistency ==
  op = "interactions" /\ pc = "done" =>
    /\ result.hasLiked \in BOOLEAN /\ result.hasReposted \in BOOLEAN
    /\ result.hasLiked <=> result.likeEventId # NullId
    /\ result.hasReposted <=> result.repostEventId # NullId
    /\ result.likeEventId # NullId =>
         \E e \in Returned : e.id = result.likeEventId /\ IsLike(e)
    /\ result.repostEventId # NullId =>
         \E e \in Returned : e.id = result.repostEventId /\ e.kind = 6
    /\ exit \in {"shortcut", "catch"} => result = EmptyInteractions

\* the lookup reports a like and no repost, and a reaction whose content
\* is not allow-listed was returned after the positive one
C14_Witness ==
  /\ Returns("interactions")
  /\ result.hasLiked /\ ~result.hasReposted
  /\ \E i, j \in DOMAIN firstResponse :
       /\ i < j
       /\ firstResponse[i].id = result.likeEventId
       /\ firstResponse[j].kind = 7
       /\ ~IsLike(firstResponse[j])

====
